---- MODULE Spec2Model ----
(***************************************************************************)
(* Presence-and-room routing engine of jamify-websocket.                   *)
(*                                                                         *)
(* Strings are sequences of atoms.  The single-character atoms "a", "b",   *)
(* "_", "1" stand for themselves; the multi-character atoms ("user:",      *)
(* ":connections", "private-room_", ...) are the literal pieces the source *)
(* concatenates into Redis keys and room ids.  Ids drawn as inputs never   *)
(* contain a ":" so a key's pieces stay recognisable.                      *)
(***************************************************************************)
EXTENDS Integers, Sequences, FiniteSets, TLC

VARIABLES
    redis,      \* the Redis store: key -> string | set of strings
    now,        \* Date.now()
    sockets,    \* io.sockets.sockets: ids of the live sockets of this process
    closed,     \* ids of the sockets that have disconnected (an id is never reused)
    joined,     \* socket.io groups of this process: set of <<socketId, roomId>>
    members,    \* history: <<roomId, userId>> added by RoomService.addUserToRoom and not removed since
    last,       \* history: the operation that completed last, with its outcome
    nops,       \* number of operations run so far
    calls,      \* in-flight addUserConnection calls (interleaved specification)
    phase,      \* position of the end-to-end scenario
    publishClient,          \* QueueService.publishClient
    subscribeClient,        \* QueueService.subscribeClient
    isActiveMqAvailable,    \* QueueService.isActiveMqAvailable
    queueHandlers,          \* QueueService.queueHandlers, in insertion order
    subscriptions,          \* the broker's subscriptions, in the order they were made
    connecting,             \* the connect() call: its position, attempt and outcome
    messages,               \* the broker's messages and what was done with each
    closedClients,          \* the broker clients disconnect() was called on
    shutdown                \* history: disconnect() has completed and no connect()
                            \* has succeeded since

qvars == <<publishClient, subscribeClient, isActiveMqAvailable, queueHandlers,
           subscriptions, connecting, messages, closedClients, shutdown>>

vars == <<redis, now, sockets, closed, joined, members, last, nops, calls, phase, qvars>>

(***************************************************************************)
(* Bounds                                                                  *)
(***************************************************************************)
MaxTime == 3
MaxOps == 4
MaxRelayOps == 5
MaxCalls == 2
MaxMsgs == 2
MaxDeliveries == 2
MaxRetries == 2
MaxSubs == 4

\* connect(retries = 5, ...)
DefaultRetries == 5

(***************************************************************************)
(* Strings                                                                 *)
(***************************************************************************)
\* null, undefined and "" alike: the source tests all of them by truthiness
Nil == <<>>

\* a broker client that is null; the clients createClient makes are 1, 2, ...
NoClient == 0

Alice == <<"a">>
Bob == <<"b">>
UserIds == {Alice, Bob}
SocketIds == {<<"s1">>, <<"s2">>}
ThisServer == <<"p1">>
ServerIds == {<<"p1">>, <<"p2">>}

\* UTF-16 code unit of an atom's first character
CharCode(ch) ==
    CASE ch = "1" -> 49
      [] ch = "_" -> 95
      [] ch = "a" -> 97
      [] ch = "b" -> 98
      [] ch = "event-room_" -> 101
      [] ch = "jam-room_" -> 106
      [] ch = "private-room_" -> 112
      [] OTHER -> 0

\* s < t in the order Array.prototype.sort uses without a comparator
RECURSIVE StrLess(_, _)
StrLess(s, t) ==
    IF t = <<>> THEN FALSE
    ELSE IF s = <<>> THEN TRUE
    ELSE IF CharCode(Head(s)) # CharCode(Head(t)) THEN CharCode(Head(s)) < CharCode(Head(t))
    ELSE StrLess(Tail(s), Tail(t))

Max(S) == CHOOSE x \in S : \A y \in S : y <= x

StartsWith(s, prefix) ==
    /\ Len(prefix) <= Len(s)
    /\ SubSeq(s, 1, Len(prefix)) = prefix

\* Redis glob matching of KEYS: "*" matches any run of characters
RECURSIVE GlobMatch(_, _)
GlobMatch(pattern, s) ==
    IF pattern = <<>> THEN s = <<>>
    ELSE IF Head(pattern) = "*"
         THEN GlobMatch(Tail(pattern), s) \/ (s # <<>> /\ GlobMatch(pattern, Tail(s)))
         ELSE s # <<>> /\ Head(s) = Head(pattern) /\ GlobMatch(Tail(pattern), Tail(s))

HasColon(ch) == ch \in {"user:", "socket:", "room:", ":connections", ":rooms", ":user", ":users"}

\* key.split(":")[1] for a key that starts with the atom "user:"
RECURSIVE UpToColon(_)
UpToColon(s) ==
    IF s = <<>> \/ HasColon(Head(s)) THEN <<>>
    ELSE <<Head(s)>> \o UpToColon(Tail(s))

SplitColon1(key) == UpToColon(Tail(key))

(***************************************************************************)
(* Room id prefixes                                                        *)
(***************************************************************************)
RoomPrefix_PRIVATE == <<"private-room_">>
RoomPrefix_EVENT == <<"event-room_">>
RoomPrefix_JAM == <<"jam-room_">>

(***************************************************************************)
(* Redis commands, as functions of the store                               *)
(***************************************************************************)
EXISTS(db, k) == k \in DOMAIN db

GET(db, k) == IF k \in DOMAIN db THEN db[k] ELSE Nil

SET(db, k, v) == [x \in DOMAIN db \cup {k} |-> IF x = k THEN v ELSE db[x]]

DEL(db, k) == [x \in DOMAIN db \ {k} |-> db[x]]

SMEMBERS(db, k) == IF k \in DOMAIN db THEN db[k] ELSE {}

SADD(db, k, m) == SET(db, k, SMEMBERS(db, k) \cup {m})

\* a set that becomes empty is deleted
SREM(db, k, m) ==
    IF SMEMBERS(db, k) \ {m} = {} THEN DEL(db, k)
    ELSE SET(db, k, SMEMBERS(db, k) \ {m})

KEYS(db, pattern) == {k \in DOMAIN db : GlobMatch(pattern, k)}

(***************************************************************************)
(* Key layout                                                              *)
(***************************************************************************)
ConnectionsKey(userId) == <<"user:">> \o userId \o <<":connections">>
SocketUserKey(socketId) == <<"socket:">> \o socketId \o <<":user">>
UserRoomsKey(userId) == <<"user:">> \o userId \o <<":rooms">>
UserRoomsPattern(userId) == <<"user:", "*">> \o userId \o <<"*", ":rooms">>
RoomUsersKey(roomId) == <<"room:">> \o roomId \o <<":users">>
RoomKey(roomId) == <<"room:">> \o roomId
UserKey(userId) == <<"user:">> \o userId

\* JSON.stringify / JSON.parse of a UserConnection {socketId, serverId, timestamp}
Stringify(conn) == <<conn.socketId, conn.serverId, conn.timestamp>>
Parse(str) == [socketId |-> str[1], serverId |-> str[2], timestamp |-> str[3]]

(***************************************************************************)
(* RedisService: connections                                               *)
(***************************************************************************)
getUserIdFromSocket(db, socketId) == GET(db, SocketUserKey(socketId))

getAllUserConnections(db, userId) ==
    {Parse(str) : str \in SMEMBERS(db, ConnectionsKey(userId))}

\* The connections find() can return: SMEMBERS gives the members in no stated
\* order, so any record of that socket may be the first.  {} stands for null.
getUserConnection(db, userId, socketId) ==
    {conn \in getAllUserConnections(db, userId) : conn.socketId = socketId}

\* The orders in which SMEMBERS can give the members of S
RECURSIVE Orders(_)
Orders(S) ==
    IF S = {} THEN {<<>>}
    ELSE UNION {{<<x>> \o rest : rest \in Orders(S \ {x})} : x \in S}

\* connections.sort((a, b) => a.timestamp - b.timestamp): oldest first
RECURSIVE SortByTimestamp_Ascending(_)
SortByTimestamp_Ascending(connections) ==
    IF connections = <<>> THEN <<>>
    ELSE LET conn == connections[Len(connections)]
             sorted == SortByTimestamp_Ascending(SubSeq(connections, 1, Len(connections) - 1))
             k == Cardinality({i \in DOMAIN sorted : sorted[i].timestamp <= conn.timestamp})
         IN  SubSeq(sorted, 1, k) \o <<conn>> \o SubSeq(sorted, k + 1, Len(sorted))

\* connections.sort((a, b) => b.timestamp - a.timestamp): the sort is stable, so
\* records of equal timestamp keep the order they came in
RECURSIVE SortByTimestamp(_)
SortByTimestamp(connections) ==
    IF connections = <<>> THEN <<>>
    ELSE LET conn == connections[Len(connections)]
             sorted == SortByTimestamp(SubSeq(connections, 1, Len(connections) - 1))
             k == Cardinality({i \in DOMAIN sorted : sorted[i].timestamp >= conn.timestamp})
         IN  SubSeq(sorted, 1, k) \o <<conn>> \o SubSeq(sorted, k + 1, Len(sorted))

\* The socket ids getSocketFromUserId can return, one for each order of the
\* members; Nil stands for null.
getSocketFromUserId(db, userId) ==
    {LET latestConnection == SortByTimestamp(connections)
     IN  IF latestConnection = <<>> THEN Nil ELSE latestConnection[1].socketId :
        connections \in Orders(getAllUserConnections(db, userId))}

\* The MULTI of addUserConnection, given the old user id it read
addUserConnectionExec(db, userId, socketId, serverId, timestamp, oldUserId) ==
    LET connectionData == [socketId |-> socketId, serverId |-> serverId, timestamp |-> timestamp]
        removed == IF oldUserId # Nil
                   THEN SREM(db, ConnectionsKey(oldUserId),
                             Stringify([connectionData EXCEPT !.socketId = socketId]))
                   ELSE db
        added == SADD(removed, ConnectionsKey(userId), Stringify(connectionData))
    IN  SET(added, SocketUserKey(socketId), userId)

addUserConnection(db, userId, socketId, serverId, timestamp) ==
    addUserConnectionExec(db, userId, socketId, serverId, timestamp,
                          getUserIdFromSocket(db, socketId))

\* The stores removeUserConnection can leave
removeUserConnection(db, userId, socketId) ==
    LET found == getUserConnection(db, userId, socketId)
        removed == IF found = {} THEN {db}
                   ELSE {DEL(SREM(db, ConnectionsKey(userId), Stringify(connection)),
                             SocketUserKey(socketId)) : connection \in found}
    IN  UNION {{IF socket # Nil THEN DEL(d, SocketUserKey(socket)) ELSE d :
                   socket \in getSocketFromUserId(d, userId)} : d \in removed}

\* the comparison of line 277 inverted
userExistsById_Inverted(db, userId) == ~EXISTS(db, UserKey(userId))

userExistsById(db, userId) == EXISTS(db, UserKey(userId))

(***************************************************************************)
(* RedisService: rooms                                                     *)
(***************************************************************************)
getUserRooms(db, userId) ==
    {SplitColon1(key) : key \in KEYS(db, UserRoomsPattern(userId))}

Redis_addUserToRoom(db, userId, roomId) == SADD(db, UserRoomsKey(userId), roomId)

Redis_removeUserFromRoom(db, userId, roomId) == SREM(db, UserRoomsKey(userId), roomId)

getRoomUsers(db, roomId) == SMEMBERS(db, RoomUsersKey(roomId))

saveRoom(db, room) == SET(db, RoomKey(room.id), room)

roomExistsById(db, roomId) == EXISTS(db, RoomKey(roomId))

(***************************************************************************)
(* RoomService                                                             *)
(***************************************************************************)
\* the two ids are joined in argument order
generatePrivateRoomId_Unsorted(user1Id, user2Id) ==
    RoomPrefix_PRIVATE \o user1Id \o <<"_">> \o user2Id

generatePrivateRoomId(user1Id, user2Id) ==
    LET sorted == IF StrLess(user2Id, user1Id) THEN <<user2Id, user1Id>>
                  ELSE <<user1Id, user2Id>>
    IN  RoomPrefix_PRIVATE \o sorted[1] \o <<"_">> \o sorted[2]

\* new Room(roomId, type, metadata)
Room(id, type, metadata) == [id |-> id, type |-> type, metadata |-> metadata]

\* RoomService.createRoom: the store it leaves; it returns Room(roomId, type, metadata)
createRoom(db, type, roomId, metadata) == saveRoom(db, Room(roomId, type, metadata))

\* RoomService hands (roomId, userId) to RedisService's (userId, roomId)
Room_redisAddUserToRoom(db, roomId, userId) == Redis_addUserToRoom(db, roomId, userId)

Room_removeUserFromRoom(db, roomId, userId) == Redis_removeUserFromRoom(db, roomId, userId)

getRoomMembers(db, roomId) == getRoomUsers(db, roomId)

\* event and jam ids come from other services: an event id may read the same
\* as a user id
EventIds == {<<"a">>}
JamIds == {<<"1">>}
Metadatas == {"m1", "m2"}
PrivateRoom == generatePrivateRoomId(Alice, Bob)
RoomIds == {PrivateRoom} \cup {RoomPrefix_EVENT \o e : e \in EventIds}
               \cup {RoomPrefix_JAM \o j : j \in JamIds}

(***************************************************************************)
(* WebSocketService                                                        *)
(***************************************************************************)
Channel_message == <<"ws.channel.message">>
Channel_notification == <<"ws.channel.notification">>

\* this.io.to(roomId).emit(event, data): reaches the sockets joined to roomId
EmitToRoom(roomId, event, data) ==
    [to |-> <<"room", roomId>>, channel |-> event, payload |-> data,
     recipients |-> {c \in sockets : <<c, roomId>> \in joined}]

\* socket.emit(event, data)
EmitToSocket(socketId, event, data) ==
    [to |-> <<"socket", socketId>>, channel |-> event, payload |-> data,
     recipients |-> {socketId}]

\* one missing room aborts every join
handleUserRooms_AllOrNothing(db, userId) ==
    IF \A roomId \in getUserRooms(db, userId) : roomExistsById(db, roomId)
    THEN getUserRooms(db, userId) ELSE {}

\* The rooms handleUserRooms joins the socket to
handleUserRooms(db, userId) ==
    {roomId \in getUserRooms(db, userId) : roomExistsById(db, roomId)}

\* WebSocketService.addUserToRoom: [err, joins]
Ws_addUserToRoom(db, roomId, userId) ==
    IF ~roomExistsById(db, roomId) THEN [err |-> "RoomNotFound", joins |-> {}]
    ELSE IF userId \in sockets THEN [err |-> "none", joins |-> {<<userId, roomId>>}]
    ELSE [err |-> "none", joins |-> {}]

\* the existence test of lines 77-80 left out
broadcastToRoom_NoExistenceTest(db, roomId, event, data) ==
    IF roomId = Nil \/ event = Nil THEN [err |-> "Required", emits |-> <<>>]
    ELSE [err |-> "none", emits |-> <<EmitToRoom(roomId, event, data)>>]

\* WebSocketService.broadcastToRoom: [err, emits]
broadcastToRoom(db, roomId, event, data) ==
    IF roomId = Nil \/ event = Nil THEN [err |-> "Required", emits |-> <<>>]
    ELSE IF ~roomExistsById(db, roomId) THEN [err |-> "RoomNotFound", emits |-> <<>>]
    ELSE [err |-> "none", emits |-> <<EmitToRoom(roomId, event, data)>>]

\* only the EVENT prefix is tested
IsRoomDest_EventOnly(destId) == StartsWith(destId, RoomPrefix_EVENT)

IsRoomDest(destId) ==
    StartsWith(destId, RoomPrefix_JAM) \/ StartsWith(destId, RoomPrefix_EVENT)

\* WebSocketService.sendNotificationTo: the outcomes [err, emits] it can have
sendNotificationTo(db, destId, channel, notification) ==
    IF destId # Nil /\ IsRoomDest(destId) /\ ~roomExistsById(db, destId)
    THEN {[err |-> "RoomNotFound", emits |-> <<>>]}
    ELSE IF ~(destId # Nil /\ IsRoomDest(destId)) /\ destId # Nil /\ ~userExistsById(db, destId)
    THEN {[err |-> "DestinationNotFound", emits |-> <<>>]}
    ELSE IF ~(destId # Nil /\ channel # Nil)   \* the notification is an object: truthy
    THEN {[err |-> "Required", emits |-> <<>>]}
    ELSE IF IsRoomDest(destId)
    THEN {[err |-> "none", emits |-> <<EmitToRoom(destId, channel, notification)>>]}
    ELSE {IF socketId = Nil THEN [err |-> "UserUnreachable", emits |-> <<>>]
          ELSE IF socketId \in sockets
               THEN [err |-> "none", emits |-> <<EmitToSocket(socketId, channel, notification)>>]
               ELSE [err |-> "SocketNotFound", emits |-> <<>>]
          : socketId \in getSocketFromUserId(db, destId)}

(***************************************************************************)
(* QueueMessageHandlers                                                    *)
(***************************************************************************)
\* [err, emits] of handleChatMessage
handleChatMessage(db, message) ==
    IF message.roomId = Nil THEN [err |-> "none", emits |-> <<>>]
    ELSE broadcastToRoom(db, message.roomId, Channel_message, message)

ChatMessages ==
    {[id |-> "m1", senderId |-> Alice, content |-> "hi", roomId |-> r] :
        r \in RoomIds \cup {Nil}}

Notifications == {[id |-> "n1", title |-> "t", content |-> "hi"]}

\* handleNotification: the outcomes [err, emits] it can have
handleNotification(db, notification) ==
    IF notification.destId = Nil /\ notification.roomId = Nil
    THEN {[err |-> "none", emits |-> <<>>]}
    ELSE sendNotificationTo(db,
                            IF notification.destId # Nil THEN notification.destId
                            ELSE notification.roomId,
                            Channel_notification, notification)

(***************************************************************************)
(* QueueService                                                            *)
(***************************************************************************)
Queue_WS_CHAT_MESSAGE == <<"WS_CHAT_MESSAGE">>
Queue_WS_NOTIFICATION == <<"WS_NOTIFICATION">>
QueueNames == {Queue_WS_CHAT_MESSAGE, Queue_WS_NOTIFICATION}

\* the handler App.initializeQueueService binds to each queue
HandlerOf(queueName) ==
    IF queueName = Queue_WS_CHAT_MESSAGE THEN "handleChatMessage" ELSE "handleNotification"

\* the outcomes [err, emits] of a registered handler called with messageData
Handle(handler, db, messageData) ==
    IF handler = "handleChatMessage" THEN {handleChatMessage(db, messageData)}
    ELSE handleNotification(db, messageData)

\* JSON.stringify of an envelope; JSON.parse of a body: text that is not JSON
\* makes it throw
JSON_stringify(envelope) == <<"json", envelope>>
NotJson == <<"{oops">>
JSON_parse(body) ==
    IF Len(body) = 2 /\ body[1] = "json" THEN [ok |-> TRUE, value |-> body[2]]
    ELSE [ok |-> FALSE, value |-> Nil]

\* Map.set: a new key goes last, an existing key keeps its place
MapSet(map, queueName, handler) ==
    IF \E i \in DOMAIN map : map[i].queue = queueName
    THEN [i \in DOMAIN map |-> IF map[i].queue = queueName
                               THEN [queue |-> queueName, handler |-> handler]
                               ELSE map[i]]
    ELSE Append(map, [queue |-> queueName, handler |-> handler])

\* subscribeClient.subscribe(...): the broker's subscriptions after it; by is
\* history: the caller, "setup" (setupConsumer) or "register"
subscribeToQueue(subs, client, queueName, handler, by) ==
    Append(subs, [client |-> client, queue |-> queueName, handler |-> handler, by |-> by])

\* registerQueueHandler's test "already connected"
alreadyConnected(client, available) == client # NoClient /\ available

\* connect's catch: whether another attempt follows the failed one
retryAfterFailure_OffByOne(attempt, retries) == attempt <= retries

retryAfterFailure(attempt, retries) == attempt < retries

\* the readString callback up to the handler call: what it does with the
\* message before any handler runs
\* JSON.parse called outside the try block
readStringCallback_ParseErrorEscapes(error, body, client) ==
    IF error \/ body = Nil
    THEN [nack |-> client # NoClient, invoke |-> FALSE, escapes |-> FALSE]
    ELSE IF ~JSON_parse(body).ok
    THEN [nack |-> FALSE, invoke |-> FALSE, escapes |-> TRUE]
    ELSE [nack |-> FALSE, invoke |-> TRUE, escapes |-> FALSE]

readStringCallback(error, body, client) ==
    IF error \/ body = Nil
    THEN [nack |-> client # NoClient, invoke |-> FALSE, escapes |-> FALSE]
    ELSE IF ~JSON_parse(body).ok
    THEN [nack |-> client # NoClient, invoke |-> FALSE, escapes |-> FALSE]
    ELSE [nack |-> FALSE, invoke |-> TRUE, escapes |-> FALSE]

\* the readString callback after "await handler(messageData)"
\* (mutants: ack moved to a finally block; catch acknowledges)
afterHandler_AckInFinally(err, client) ==
    [ack |-> client # NoClient, nack |-> err # "none" /\ client # NoClient]

afterHandler_AlwaysAck(err, client) ==
    [ack |-> client # NoClient, nack |-> FALSE]

afterHandler(err, client) ==
    IF err = "none" THEN [ack |-> client # NoClient, nack |-> FALSE]
    ELSE [ack |-> FALSE, nack |-> client # NoClient]

\* the envelopes the broker carries on each queue
EventRoom == RoomPrefix_EVENT \o <<"a">>
QueueChatMessages == {m \in ChatMessages : m.roomId \in {Nil, EventRoom}}
QueueNotifications ==
    {[id |-> "n1", title |-> "t", content |-> "hi", destId |-> t[1], roomId |-> t[2]] :
        t \in {<<Nil, Nil>>, <<Alice, Nil>>, <<EventRoom, Nil>>, <<Nil, PrivateRoom>>}}

\* [error, body] as readString hands them to its callback
Payloads(queueName) ==
    IF queueName = Queue_WS_CHAT_MESSAGE
    THEN {[error |-> TRUE, body |-> Nil], [error |-> FALSE, body |-> NotJson]}
            \cup {[error |-> FALSE, body |-> JSON_stringify(m)] : m \in QueueChatMessages}
    ELSE {[error |-> FALSE, body |-> JSON_stringify(n)] : n \in QueueNotifications}

(***************************************************************************)
(* History                                                                 *)
(***************************************************************************)
NoOp == [op |-> "none", user |-> Nil, socket |-> Nil, server |-> Nil,
         room |-> Nil, dest |-> Nil, err |-> "none", emits |-> <<>>, joins |-> {},
         ret |-> Nil, storeFailed |-> FALSE]

IdleCall == [pc |-> "idle", userId |-> Nil, socketId |-> Nil, serverId |-> Nil,
             timestamp |-> 0, oldUserId |-> Nil, connection |-> Nil, socket |-> Nil]

\* connect() not called yet; registered is history: the number of handlers the
\* map held when connect() was called (a Map keeps insertion order and no key
\* is ever deleted, so they are its first entries); base is history: the number
\* of broker clients created before the call; interrupted is history:
\* disconnect() ran while the call was in progress
IdleConnect == [pc |-> "idle", retries |-> 0, attempt |-> 0, failed |-> 0,
                succeeded |-> 0, cursor |-> 0, clients |-> 0, registered |-> 0,
                base |-> 0, interrupted |-> FALSE]

\* a message slot the broker has not filled yet
NoMessage == [state |-> "none", queue |-> Nil, error |-> FALSE, body |-> Nil,
              handler |-> "none", deliveries |-> 0, acks |-> 0, nacks |-> 0,
              invoked |-> 0, resolved |-> 0, threw |-> 0, emits |-> 0,
              escaped |-> FALSE, order |-> 0]

(***************************************************************************)
(* Initial state                                                           *)
(***************************************************************************)
InitWith(mode) ==
    /\ redis = <<>>
    /\ now = 1
    /\ sockets = {}
    /\ closed = {}
    /\ joined = {}
    /\ members = {}
    /\ last = NoOp
    /\ nops = 0
    /\ calls = [i \in 1..MaxCalls |-> IdleCall]
    /\ phase = mode
    /\ publishClient = NoClient
    /\ subscribeClient = NoClient
    /\ isActiveMqAvailable = FALSE
    /\ queueHandlers = <<>>
    /\ subscriptions = <<>>
    /\ connecting = IdleConnect
    /\ messages = [m \in 1..MaxMsgs |-> NoMessage]
    /\ closedClients = {}
    /\ shutdown = FALSE

Init == InitWith("free")

Tick ==
    /\ now < MaxTime
    /\ now' = now + 1
    /\ UNCHANGED <<redis, sockets, closed, joined, members, last, nops, calls, phase, qvars>>

(***************************************************************************)
(* ConnectionRegistry alone: RedisService called directly                  *)
(***************************************************************************)
Register(userId, socketId, serverId) ==
    /\ nops < MaxOps
    /\ redis' = addUserConnection(redis, userId, socketId, serverId, now)
    /\ last' = [NoOp EXCEPT !.op = "register", !.user = userId, !.socket = socketId,
                            !.server = serverId]
    /\ nops' = nops + 1
    /\ UNCHANGED <<now, sockets, closed, joined, members, calls, phase, qvars>>

Unregister(userId, socketId) ==
    /\ nops < MaxOps
    /\ \E db \in removeUserConnection(redis, userId, socketId) : redis' = db
    /\ last' = [NoOp EXCEPT !.op = "unregister", !.user = userId, !.socket = socketId]
    /\ nops' = nops + 1
    /\ UNCHANGED <<now, sockets, closed, joined, members, calls, phase, qvars>>

RegistryNext ==
    \/ Tick
    \/ \E u \in UserIds, c \in SocketIds, p \in ServerIds : Register(u, c, p)
    \/ \E u \in UserIds, c \in SocketIds : Unregister(u, c)

SpecRegistry == Init /\ [][RegistryNext]_vars

(***************************************************************************)
(* The relay: socket events, room management, queue handlers, each run to  *)
(* completion.  In the end-to-end scenario (phase # "free") an operation   *)
(* runs only in its place of the scenario.                                 *)
(***************************************************************************)
Guard(inScenario) == IF phase = "free" THEN nops < MaxRelayOps ELSE inScenario

Count == nops' = IF phase = "free" THEN nops + 1 ELSE nops

\* the user has a live socket registered to it
HasLive(userId) ==
    \E c \in sockets :
        /\ getUserIdFromSocket(redis, c) = userId
        /\ getUserConnection(redis, userId, c) # {}

\* io.on('connection'): handleConnection(socket)
SocketConnect(socketId) ==
    /\ socketId \notin sockets
    /\ socketId \notin closed
    /\ Guard(phase \in {"connect", "rooms"})
    /\ sockets' = sockets \cup {socketId}
    /\ last' = [NoOp EXCEPT !.op = "connection", !.socket = socketId]
    /\ phase' = IF phase = "rooms" THEN "arrive" ELSE phase
    /\ Count
    /\ UNCHANGED <<redis, now, closed, joined, members, calls, qvars>>

\* socket.on('register')
OnRegister(socketId, userId) ==
    /\ socketId \in sockets
    /\ Guard(phase \in {"connect", "arrive"})
    /\ LET db == addUserConnection(redis, userId, socketId, ThisServer, now)
           joins == {<<socketId, roomId>> : roomId \in handleUserRooms(db, userId)}
       IN  /\ redis' = db
           /\ joined' = joined \cup joins
           /\ last' = [NoOp EXCEPT !.op = "onRegister", !.user = userId,
                                   !.socket = socketId, !.server = ThisServer,
                                   !.joins = joins]
    /\ phase' = IF phase = "arrive" THEN "arrived" ELSE phase
    /\ Count
    /\ UNCHANGED <<now, sockets, closed, members, calls, qvars>>

\* socket.on('disconnect'): the socket has left io.sockets.sockets and its groups
OnDisconnect(socketId) ==
    /\ socketId \in sockets
    /\ Guard(FALSE)
    /\ sockets' = sockets \ {socketId}
    /\ closed' = closed \cup {socketId}
    /\ joined' = {j \in joined : j[1] # socketId}
    /\ LET userId == getUserIdFromSocket(redis, socketId)
       IN  /\ IF userId # Nil
              THEN \E db \in removeUserConnection(redis, userId, socketId) : redis' = db
              ELSE redis' = redis
           /\ last' = [NoOp EXCEPT !.op = "onDisconnect", !.user = userId,
                                   !.socket = socketId]
    /\ Count
    /\ UNCHANGED <<now, members, calls, phase, qvars>>

CreatePrivateRoom(user1Id, user2Id, metadata) ==
    /\ Guard(\/ /\ phase = "connect" /\ HasLive(Alice) /\ HasLive(Bob)
                /\ {user1Id, user2Id} = {Alice, Bob}
             \/ /\ phase \in {"rooms", "dispatch"}
                /\ ~roomExistsById(redis, generatePrivateRoomId(user1Id, user2Id)))
    /\ redis' = createRoom(redis, "PRIVATE", generatePrivateRoomId(user1Id, user2Id), metadata)
    /\ last' = [NoOp EXCEPT !.op = "createRoom",
                            !.room = generatePrivateRoomId(user1Id, user2Id),
                            !.ret = Room(generatePrivateRoomId(user1Id, user2Id),
                                         "PRIVATE", metadata)]
    /\ phase' = IF phase \in {"free", "rooms"} THEN phase ELSE "join"
    /\ Count
    /\ UNCHANGED <<now, sockets, closed, joined, members, calls, qvars>>

CreateEventRoom(eventId, metadata) ==
    /\ Guard(/\ phase \in {"rooms", "dispatch"}
             /\ ~roomExistsById(redis, RoomPrefix_EVENT \o eventId))
    /\ redis' = createRoom(redis, "EVENT", RoomPrefix_EVENT \o eventId, metadata)
    /\ last' = [NoOp EXCEPT !.op = "createRoom", !.room = RoomPrefix_EVENT \o eventId,
                            !.ret = Room(RoomPrefix_EVENT \o eventId, "EVENT", metadata)]
    /\ Count
    /\ UNCHANGED <<now, sockets, closed, joined, members, calls, phase, qvars>>

CreateJamRoom(jamId, metadata) ==
    /\ Guard(FALSE)
    /\ redis' = createRoom(redis, "JAM", RoomPrefix_JAM \o jamId, metadata)
    /\ last' = [NoOp EXCEPT !.op = "createRoom", !.room = RoomPrefix_JAM \o jamId,
                            !.ret = Room(RoomPrefix_JAM \o jamId, "JAM", metadata)]
    /\ Count
    /\ UNCHANGED <<now, sockets, closed, joined, members, calls, phase, qvars>>

\* RoomService.addUserToRoom
AddUserToRoom(roomId, userId) ==
    /\ Guard(/\ phase \in {"join", "rooms"}
             /\ phase = "join" => roomId = PrivateRoom
             /\ <<roomId, userId>> \notin members)
    /\ LET live == Ws_addUserToRoom(redis, roomId, userId)
       IN  /\ IF live.err # "none"
              THEN UNCHANGED <<redis, joined, members>>
              ELSE /\ redis' = Room_redisAddUserToRoom(redis, roomId, userId)
                   /\ joined' = joined \cup live.joins
                   /\ members' = members \cup {<<roomId, userId>>}
           /\ last' = [NoOp EXCEPT !.op = "addUserToRoom", !.room = roomId,
                                   !.user = userId, !.err = live.err,
                                   !.joins = live.joins]
    /\ phase' = IF phase \in {"free", "rooms"} THEN phase
                ELSE IF {<<PrivateRoom, Alice>>, <<PrivateRoom, Bob>>} \subseteq members'
                     THEN "chat" ELSE "join"
    /\ Count
    /\ UNCHANGED <<now, sockets, closed, calls, qvars>>

\* A room record removed from the store by another client of it: the case the
\* existence tests of handleUserRooms, addUserToRoom and broadcastToRoom are for
RoomDeletedOutOfBand(roomId) ==
    /\ roomExistsById(redis, roomId)
    /\ Guard(phase = "rooms")
    /\ redis' = DEL(redis, RoomKey(roomId))
    /\ last' = [NoOp EXCEPT !.op = "roomDeleted", !.room = roomId]
    /\ Count
    /\ UNCHANGED <<now, sockets, closed, joined, members, calls, phase, qvars>>

\* RoomService.removeUserFromRoom
RemoveUserFromRoom(roomId, userId) ==
    /\ Guard(FALSE)
    /\ redis' = Room_removeUserFromRoom(redis, roomId, userId)
    /\ members' = members \ {<<roomId, userId>>}
    /\ last' = [NoOp EXCEPT !.op = "removeUserFromRoom", !.room = roomId, !.user = userId]
    /\ Count
    /\ UNCHANGED <<now, sockets, closed, joined, calls, phase, qvars>>

SendNotificationTo(destId, notification) ==
    /\ Guard(FALSE)
    /\ \E out \in sendNotificationTo(redis, destId, Channel_notification, notification) :
          last' = [NoOp EXCEPT !.op = "sendNotificationTo", !.dest = destId,
                               !.err = out.err, !.emits = out.emits]
    /\ Count
    /\ UNCHANGED <<redis, now, sockets, closed, joined, members, calls, phase, qvars>>

\* a chat-message envelope dispatched to handleChatMessage
HandleChatMessage(message) ==
    /\ Guard(phase = "chat" /\ message.roomId = PrivateRoom)
    /\ LET out == handleChatMessage(redis, message)
       IN  last' = [NoOp EXCEPT !.op = "handleChatMessage", !.room = message.roomId,
                                !.err = out.err, !.emits = out.emits]
    /\ phase' = IF phase = "free" THEN phase ELSE "done"
    /\ Count
    /\ UNCHANGED <<redis, now, sockets, closed, joined, members, calls, qvars>>

Next ==
    \/ Tick
    \/ \E c \in SocketIds : SocketConnect(c)
    \/ \E c \in SocketIds, u \in UserIds : OnRegister(c, u)
    \/ \E c \in SocketIds : OnDisconnect(c)
    \/ \E u1 \in UserIds, m \in Metadatas :
          \E u2 \in UserIds \ {u1} : CreatePrivateRoom(u1, u2, m)
    \/ \E e \in EventIds, m \in Metadatas : CreateEventRoom(e, m)
    \/ \E j \in JamIds, m \in Metadatas : CreateJamRoom(j, m)
    \/ \E r \in RoomIds, u \in UserIds : AddUserToRoom(r, u)
    \/ \E r \in RoomIds, u \in UserIds : RemoveUserFromRoom(r, u)
    \/ \E d \in UserIds \cup RoomIds \cup {Nil}, n \in Notifications : SendNotificationTo(d, n)
    \/ \E m \in ChatMessages : HandleChatMessage(m)

Spec == Init /\ [][Next]_vars

(***************************************************************************)
(* The end-to-end scenario: connect and register, create the private room, *)
(* add both members, deliver one chat message.                             *)
(***************************************************************************)
E2EInit == InitWith("connect")

E2ENext ==
    \/ Tick
    \/ \E c \in SocketIds : SocketConnect(c)
    \/ \E c \in SocketIds, u \in UserIds : OnRegister(c, u)
    \/ \E u1 \in UserIds, m \in Metadatas :
          \E u2 \in UserIds \ {u1} : CreatePrivateRoom(u1, u2, m)
    \/ \E r \in RoomIds, u \in UserIds : AddUserToRoom(r, u)
    \/ \E m \in ChatMessages : HandleChatMessage(m)

SpecE2E == E2EInit /\ [][E2ENext]_vars

(***************************************************************************)
(* Connecting after the rooms were set up: rooms are created, members      *)
(* added and room records deleted out of band; then a socket connects and  *)
(* registers.                                                              *)
(***************************************************************************)
RejoinInit == InitWith("rooms")

RejoinNext ==
    \/ Tick
    \/ \E u1 \in UserIds, m \in Metadatas :
          \E u2 \in UserIds \ {u1} : CreatePrivateRoom(u1, u2, m)
    \/ \E e \in EventIds, m \in Metadatas : CreateEventRoom(e, m)
    \/ \E r \in RoomIds, u \in UserIds : AddUserToRoom(r, u)
    \/ \E r \in RoomIds : RoomDeletedOutOfBand(r)
    \/ \E c \in SocketIds : SocketConnect(c)
    \/ \E c \in SocketIds, u \in UserIds : OnRegister(c, u)

SpecRejoin == RejoinInit /\ [][RejoinNext]_vars

(***************************************************************************)
(* The room routes that add users.  A handler runs to its end: the          *)
(* response it sends and the addUserToRoom calls it started.  The calls     *)
(* one request starts touch different members, so their order is immaterial.*)
(***************************************************************************)
\* RoomService.addUserToRoom: [err, db, joins]
RoomService_addUserToRoom(db, roomId, userId) ==
    LET live == Ws_addUserToRoom(db, roomId, userId)
    IN  IF live.err # "none" THEN [err |-> live.err, db |-> db, joins |-> {}]
        ELSE [err |-> "none", db |-> Room_redisAddUserToRoom(db, roomId, userId),
              joins |-> live.joins]

\* usersId.map(async userId => await roomService.addUserToRoom(roomId, userId)):
\* what the promises it makes leave, [db, joins, added, errs]
RECURSIVE MapAddUserToRoom(_, _, _)
MapAddUserToRoom(db, roomId, usersId) ==
    IF usersId = <<>> THEN [db |-> db, joins |-> {}, added |-> {}, errs |-> {}]
    ELSE LET first == RoomService_addUserToRoom(db, roomId, Head(usersId))
             rest == MapAddUserToRoom(first.db, roomId, Tail(usersId))
         IN  [db |-> rest.db,
              joins |-> first.joins \cup rest.joins,
              added |-> IF first.err = "none"
                        THEN {<<roomId, Head(usersId)>>} \cup rest.added ELSE rest.added,
              errs |-> IF first.err = "none" THEN rest.errs ELSE {first.err} \cup rest.errs]

Response_OK == "200"
Response_INTERNAL_SERVER_ERROR == "500"

\* the response of POST /private/add-users: the promises map returns are not
\* awaited, so the try block ends with res.json
respondAddUsers(errs) == <<Response_OK, "Users added to room">>

\* the response of POST /event/add-user
respondAddUser(err) ==
    IF err = "none" THEN <<Response_OK, "User added to room">>
    ELSE <<Response_INTERNAL_SERVER_ERROR, err>>

UsersIdLists ==
    {<<u>> : u \in UserIds}
        \cup {usersId \in UserIds \X UserIds : usersId[1] # usersId[2]}

\* router.post('/private/add-users')
PostPrivateAddUsers(roomId, usersId) ==
    /\ Guard(FALSE)
    /\ LET out == MapAddUserToRoom(redis, roomId, usersId)
       IN  /\ redis' = out.db
           /\ joined' = joined \cup out.joins
           /\ members' = members \cup out.added
           /\ last' = [NoOp EXCEPT !.op = "POST /private/add-users", !.room = roomId,
                                   !.err = IF out.errs = {} THEN "none"
                                           ELSE CHOOSE e \in out.errs : TRUE,
                                   !.joins = out.joins,
                                   !.ret = respondAddUsers(out.errs)]
    /\ Count
    /\ UNCHANGED <<now, sockets, closed, calls, phase, qvars>>

\* router.post('/event/add-user')
PostEventAddUser(roomId, userId) ==
    /\ Guard(FALSE)
    /\ LET out == RoomService_addUserToRoom(redis, roomId, userId)
       IN  /\ redis' = out.db
           /\ joined' = joined \cup out.joins
           /\ members' = IF out.err = "none" THEN members \cup {<<roomId, userId>>}
                         ELSE members
           /\ last' = [NoOp EXCEPT !.op = "POST /event/add-user", !.room = roomId,
                                   !.user = userId, !.err = out.err, !.joins = out.joins,
                                   !.ret = respondAddUser(out.err)]
    /\ Count
    /\ UNCHANGED <<now, sockets, closed, calls, phase, qvars>>

RoutesNext ==
    \/ \E c \in SocketIds : SocketConnect(c)
    \/ \E c \in SocketIds, u \in UserIds : OnRegister(c, u)
    \/ \E u1 \in UserIds, m \in Metadatas :
          \E u2 \in UserIds \ {u1} : CreatePrivateRoom(u1, u2, m)
    \/ \E e \in EventIds, m \in Metadatas : CreateEventRoom(e, m)
    \/ \E r \in RoomIds, usersId \in UsersIdLists : PostPrivateAddUsers(r, usersId)
    \/ \E r \in RoomIds, u \in UserIds : PostEventAddUser(r, u)

SpecRoutes == Init /\ [][RoutesNext]_vars

(***************************************************************************)
(* The relay when the store fails.  failAt = k > 0 makes the k-th store    *)
(* read of the operation reject, if the operation gets that far; the       *)
(* outcomes carry failed, whether a read did reject.                       *)
(***************************************************************************)
\* the error a rejected store read ends the caller with: the client's error from
\* roomExistsById and userExistsById, 'Failed to get socket from userId' from
\* getSocketFromUserId
StoreFailure == "StoreFailure"

MaxReads == 2

Completed(outs) == {[err |-> out.err, emits |-> out.emits, failed |-> FALSE] : out \in outs}

\* broadcastToRoom: its one read is roomExistsById; the catch rethrows
broadcastToRoomStoreDown(db, roomId, event, data, failAt) ==
    IF roomId = Nil \/ event = Nil \/ failAt # 1
    THEN Completed({broadcastToRoom(db, roomId, event, data)})
    ELSE {[err |-> StoreFailure, emits |-> <<>>, failed |-> TRUE]}

\* WebSocketService.addUserToRoom: its one read is roomExistsById; the catch
\* rethrows.  [err, joins, failed]
Ws_addUserToRoomStoreDown(db, roomId, userId, failAt) ==
    IF failAt = 1 THEN [err |-> StoreFailure, joins |-> {}, failed |-> TRUE]
    ELSE [err |-> Ws_addUserToRoom(db, roomId, userId).err,
          joins |-> Ws_addUserToRoom(db, roomId, userId).joins, failed |-> FALSE]

\* a read that rejects is taken for "no such room" or "no such user"
sendNotificationToStoreDown_AsAbsent(db, destId, channel, notification, failAt) ==
    IF destId # Nil /\ failAt = 1
    THEN {[err |-> IF IsRoomDest(destId) THEN "RoomNotFound" ELSE "DestinationNotFound",
           emits |-> <<>>, failed |-> TRUE]}
    ELSE Completed(sendNotificationTo(db, destId, channel, notification))

\* sendNotificationTo: the first read is roomExistsById or userExistsById, the
\* second getSocketFromUserId; no rejection is caught
sendNotificationToStoreDown(db, destId, channel, notification, failAt) ==
    LET rejected == {[err |-> StoreFailure, emits |-> <<>>, failed |-> TRUE]}
        completed == Completed(sendNotificationTo(db, destId, channel, notification))
    IN  IF destId = Nil THEN completed
        ELSE IF failAt = 1 THEN rejected
        ELSE IF IsRoomDest(destId) THEN completed
        ELSE IF ~userExistsById(db, destId) \/ channel = Nil THEN completed
        ELSE IF failAt = 2 THEN rejected
        ELSE completed

\* The key userExistsById reads is written by no code of this service: another
\* client of the store writes it
UserSavedOutOfBand(userId) ==
    /\ ~userExistsById(redis, userId)
    /\ Guard(FALSE)
    /\ redis' = SET(redis, UserKey(userId), userId)
    /\ last' = [NoOp EXCEPT !.op = "userSaved", !.user = userId]
    /\ Count
    /\ UNCHANGED <<now, sockets, closed, joined, members, calls, phase, qvars>>

SendNotificationToStoreDown(destId, notification, failAt) ==
    /\ Guard(FALSE)
    /\ \E out \in sendNotificationToStoreDown(redis, destId, Channel_notification,
                                              notification, failAt) :
          last' = [NoOp EXCEPT !.op = "sendNotificationTo", !.dest = destId,
                               !.err = out.err, !.emits = out.emits,
                               !.storeFailed = out.failed]
    /\ Count
    /\ UNCHANGED <<redis, now, sockets, closed, joined, members, calls, phase, qvars>>

BroadcastToRoomStoreDown(roomId, message, failAt) ==
    /\ Guard(FALSE)
    /\ \E out \in broadcastToRoomStoreDown(redis, roomId, Channel_message, message, failAt) :
          last' = [NoOp EXCEPT !.op = "broadcastToRoom", !.room = roomId,
                               !.err = out.err, !.emits = out.emits,
                               !.storeFailed = out.failed]
    /\ Count
    /\ UNCHANGED <<redis, now, sockets, closed, joined, members, calls, phase, qvars>>

AddUserToRoomLiveStoreDown(roomId, userId, failAt) ==
    /\ Guard(FALSE)
    /\ LET live == Ws_addUserToRoomStoreDown(redis, roomId, userId, failAt)
       IN  /\ joined' = joined \cup live.joins
           /\ last' = [NoOp EXCEPT !.op = "addUserToRoomLive", !.room = roomId,
                                   !.user = userId, !.err = live.err,
                                   !.joins = live.joins, !.storeFailed = live.failed]
    /\ Count
    /\ UNCHANGED <<redis, now, sockets, closed, members, calls, phase, qvars>>

StoreDownNext ==
    \/ \E c \in SocketIds : SocketConnect(c)
    \/ \E c \in SocketIds, u \in UserIds : OnRegister(c, u)
    \/ \E e \in EventIds, m \in Metadatas : CreateEventRoom(e, m)
    \/ \E u \in UserIds : UserSavedOutOfBand(u)
    \/ \E d \in UserIds \cup RoomIds \cup {Nil}, n \in Notifications, failAt \in 0..MaxReads :
          SendNotificationToStoreDown(d, n, failAt)
    \/ \E r \in RoomIds, m \in ChatMessages, failAt \in 0..MaxReads :
          BroadcastToRoomStoreDown(r, m, failAt)
    \/ \E r \in RoomIds, u \in UserIds, failAt \in 0..MaxReads :
          AddUserToRoomLiveStoreDown(r, u, failAt)

SpecStoreDown == Init /\ [][StoreDownNext]_vars

(***************************************************************************)
(* Two server processes on one store.  This process is p1; the other one,  *)
(* p2, registers its own sockets in the shared store.  The sockets of p2   *)
(* stay connected, so a connection p2 has registered is live.              *)
(***************************************************************************)
OtherServer == <<"p2">>
RemoteSocketIds == {<<"r1">>}

\* the register handler of the other process: it writes the shared store and
\* joins its own socket to groups of its own
RemoteRegister(socketId, userId) ==
    /\ Guard(FALSE)
    /\ redis' = addUserConnection(redis, userId, socketId, OtherServer, now)
    /\ last' = [NoOp EXCEPT !.op = "remoteRegister", !.user = userId,
                            !.socket = socketId, !.server = OtherServer]
    /\ Count
    /\ UNCHANGED <<now, sockets, closed, joined, members, calls, phase, qvars>>

\* the live connections of a user this process owns, and those the other owns
LocalLive(userId) ==
    {c \in sockets : /\ getUserIdFromSocket(redis, c) = userId
                     /\ getUserConnection(redis, userId, c) # {}}

RemoteLive(userId) ==
    {c \in RemoteSocketIds : /\ getUserIdFromSocket(redis, c) = userId
                             /\ getUserConnection(redis, userId, c) # {}}

MultiNext ==
    \/ Tick
    \/ \E c \in SocketIds : SocketConnect(c)
    \/ \E c \in SocketIds, u \in UserIds : OnRegister(c, u)
    \/ \E c \in RemoteSocketIds, u \in UserIds : RemoteRegister(c, u)
    \/ \E u \in UserIds : UserSavedOutOfBand(u)
    \/ \E d \in UserIds, n \in Notifications : SendNotificationTo(d, n)

SpecMulti == Init /\ [][MultiNext]_vars

(***************************************************************************)
(* Interleaved addUserConnection calls of this process: the read of the    *)
(* reverse index and the MULTI are separate commands.                      *)
(***************************************************************************)
AddUserConnectionCall(i, userId, socketId) ==
    /\ calls[i].pc = "idle"
    /\ calls' = [calls EXCEPT ![i] = [IdleCall EXCEPT
                                         !.pc = "read", !.userId = userId,
                                         !.socketId = socketId, !.serverId = ThisServer,
                                         !.timestamp = now]]
    /\ UNCHANGED <<redis, now, sockets, closed, joined, members, last, nops, phase, qvars>>

AddUserConnectionRead(i) ==
    /\ calls[i].pc = "read"
    /\ calls' = [calls EXCEPT ![i].pc = "exec",
                              ![i].oldUserId = getUserIdFromSocket(redis, calls[i].socketId)]
    /\ UNCHANGED <<redis, now, sockets, closed, joined, members, last, nops, phase, qvars>>

AddUserConnectionMulti(i) ==
    /\ calls[i].pc = "exec"
    /\ redis' = addUserConnectionExec(redis, calls[i].userId, calls[i].socketId,
                                      calls[i].serverId, calls[i].timestamp,
                                      calls[i].oldUserId)
    /\ calls' = [calls EXCEPT ![i].pc = "done"]
    /\ UNCHANGED <<now, sockets, closed, joined, members, last, nops, phase, qvars>>

ConcNext ==
    \/ Tick
    \/ \E i \in 1..MaxCalls, u \in UserIds, c \in SocketIds : AddUserConnectionCall(i, u, c)
    \/ \E i \in 1..MaxCalls : AddUserConnectionRead(i)
    \/ \E i \in 1..MaxCalls : AddUserConnectionMulti(i)

SpecConc == Init /\ [][ConcNext]_vars

(***************************************************************************)
(* One socket's register handler and the same socket's disconnect handler, *)
(* interleaved at their awaits.  calls[1] is the register handler's        *)
(* addUserConnection, calls[2] the disconnect handler.  The store executes *)
(* the commands of this process in the order they were issued, so the      *)
(* disconnect handler's first read follows the register handler's.  Before *)
(* the two handlers start, completed registrations fill the store.         *)
(***************************************************************************)
RegisterBefore(userId, socketId) ==
    /\ calls[1].pc = "idle"
    /\ Register(userId, socketId, ThisServer)

\* socket.on('register') is called: addUserConnection starts
RegisterHandlerCall(userId, socketId) ==
    /\ calls[2].pc = "idle"
    /\ AddUserConnectionCall(1, userId, socketId)

\* socket.on('disconnect') is called for the socket of the register handler
DisconnectHandlerCall ==
    /\ calls[1].pc # "idle"
    /\ calls[2].pc = "idle"
    /\ calls' = [calls EXCEPT ![2] = [IdleCall EXCEPT !.pc = "resolve",
                                         !.socketId = calls[1].socketId]]
    /\ UNCHANGED <<redis, now, sockets, closed, joined, members, last, nops, phase, qvars>>

\* getUserIdFromSocket(socket.id) and the test "if (userId)"
DisconnectHandlerResolve ==
    /\ calls[2].pc = "resolve"
    /\ calls[1].pc # "read"
    /\ LET userId == getUserIdFromSocket(redis, calls[2].socketId)
       IN  calls' = [calls EXCEPT ![2].userId = userId,
                                  ![2].pc = IF userId # Nil THEN "find" ELSE "done"]
    /\ UNCHANGED <<redis, now, sockets, closed, joined, members, last, nops, phase, qvars>>

\* removeUserConnection: getUserConnection(userId, socketId)
RemoveUserConnectionFind ==
    /\ calls[2].pc = "find"
    /\ LET found == getUserConnection(redis, calls[2].userId, calls[2].socketId)
       IN  IF found = {}
           THEN calls' = [calls EXCEPT ![2].pc = "latest"]
           ELSE \E connection \in found :
                   calls' = [calls EXCEPT ![2].connection = Stringify(connection),
                                          ![2].pc = "remove"]
    /\ UNCHANGED <<redis, now, sockets, closed, joined, members, last, nops, phase, qvars>>

\* removeUserConnection: the SREM and the DEL of Promise.all, issued together
RemoveUserConnectionRemove ==
    /\ calls[2].pc = "remove"
    /\ redis' = DEL(SREM(redis, ConnectionsKey(calls[2].userId), calls[2].connection),
                    SocketUserKey(calls[2].socketId))
    /\ calls' = [calls EXCEPT ![2].pc = "latest"]
    /\ UNCHANGED <<now, sockets, closed, joined, members, last, nops, phase, qvars>>

\* removeUserConnection: getSocketFromUserId(userId) and the test "if (socket)"
RemoveUserConnectionLatest ==
    /\ calls[2].pc = "latest"
    /\ \E socket \in getSocketFromUserId(redis, calls[2].userId) :
          calls' = [calls EXCEPT ![2].socket = socket,
                                 ![2].pc = IF socket # Nil THEN "delete" ELSE "done"]
    /\ UNCHANGED <<redis, now, sockets, closed, joined, members, last, nops, phase, qvars>>

\* removeUserConnection: the DEL of the latest socket's reverse-index entry
RemoveUserConnectionDelete ==
    /\ calls[2].pc = "delete"
    /\ redis' = DEL(redis, SocketUserKey(calls[2].socket))
    /\ calls' = [calls EXCEPT ![2].pc = "done"]
    /\ UNCHANGED <<now, sockets, closed, joined, members, last, nops, phase, qvars>>

RaceNext ==
    \/ Tick
    \/ \E u \in UserIds, c \in SocketIds : RegisterBefore(u, c)
    \/ \E u \in UserIds, c \in SocketIds : RegisterHandlerCall(u, c)
    \/ AddUserConnectionRead(1)
    \/ AddUserConnectionMulti(1)
    \/ DisconnectHandlerCall
    \/ DisconnectHandlerResolve
    \/ RemoveUserConnectionFind
    \/ RemoveUserConnectionRemove
    \/ RemoveUserConnectionLatest
    \/ RemoveUserConnectionDelete

SpecRace == Init /\ [][RaceNext]_vars

(***************************************************************************)
(* RoomService.generatePrivateRoomId on its own: the two ids are drawn     *)
(* from the strings over IdChars, and the call records its result.         *)
(***************************************************************************)
MaxIdLen == 2
IdChars == {"1", "_", "a", "b"}
Ids == UNION {[1..n -> IdChars] : n \in 1..MaxIdLen}

RoomIdInit ==
    /\ \E user1Id \in Ids, user2Id \in Ids :
          last = [NoOp EXCEPT !.user = user1Id, !.dest = user2Id]
    /\ redis = <<>>
    /\ now = 1
    /\ sockets = {}
    /\ closed = {}
    /\ joined = {}
    /\ members = {}
    /\ nops = 0
    /\ calls = [i \in 1..MaxCalls |-> IdleCall]
    /\ phase = "roomid"
    /\ publishClient = NoClient
    /\ subscribeClient = NoClient
    /\ isActiveMqAvailable = FALSE
    /\ queueHandlers = <<>>
    /\ subscriptions = <<>>
    /\ connecting = IdleConnect
    /\ messages = [m \in 1..MaxMsgs |-> NoMessage]
    /\ closedClients = {}
    /\ shutdown = FALSE

GeneratePrivateRoomId ==
    /\ phase = "roomid"
    /\ last.op = "none"
    /\ last' = [last EXCEPT !.op = "generatePrivateRoomId",
                            !.ret = generatePrivateRoomId(last.user, last.dest)]
    /\ UNCHANGED <<redis, now, sockets, closed, joined, members, nops, calls, phase, qvars>>

RoomIdNext == GeneratePrivateRoomId

SpecRoomId == RoomIdInit /\ [][RoomIdNext]_vars

(***************************************************************************)
(* QueueService: registering handlers and connecting.  connect() runs      *)
(* between its awaits: each attempt, each pass of setupConsumer's loop and *)
(* the return of setupConsumer are separate steps, and registerQueueHandler *)
(* may run between any two of them.                                        *)
(***************************************************************************)
relayVars == <<redis, now, sockets, closed, joined, members, last, nops, calls, phase>>

RegisterQueueHandler(queueName) ==
    /\ Len(subscriptions) < MaxSubs
    /\ queueHandlers' = MapSet(queueHandlers, queueName, HandlerOf(queueName))
    /\ subscriptions' =
          IF alreadyConnected(subscribeClient, isActiveMqAvailable)
          THEN subscribeToQueue(subscriptions, subscribeClient, queueName,
                                HandlerOf(queueName), "register")
          ELSE subscriptions
    /\ last' = [NoOp EXCEPT !.op = "registerQueueHandler", !.dest = queueName]
    /\ UNCHANGED <<publishClient, subscribeClient, isActiveMqAvailable, connecting,
                   messages, closedClients, shutdown>>
    /\ UNCHANGED <<redis, now, sockets, closed, joined, members, nops, calls, phase>>

\* connect(retries, delayMs) is called: with retries < 1 the loop body never
\* runs and the call returns
ConnectCall(retries) ==
    /\ connecting.pc = "idle"
    /\ connecting' = [connecting EXCEPT !.pc = IF 1 <= retries THEN "attempt" ELSE "resolved",
                                        !.retries = retries, !.attempt = 1,
                                        !.registered = Len(queueHandlers)]
    /\ UNCHANGED <<publishClient, subscribeClient, isActiveMqAvailable, queueHandlers,
                   subscriptions, messages, closedClients, shutdown, relayVars>>

\* one pass of the try block up to setupConsumer: the two createClient calls
ConnectAttempt(outcome) ==
    /\ connecting.pc = "attempt"
    /\ IF outcome = "ok"
       THEN /\ publishClient' = connecting.clients + 1
            /\ subscribeClient' = connecting.clients + 2
            /\ connecting' = [connecting EXCEPT !.pc = "setup", !.cursor = 1,
                                                !.clients = @ + 2, !.succeeded = @ + 1]
            /\ UNCHANGED isActiveMqAvailable
       ELSE /\ IF outcome = "subscribeClientFails"
               THEN /\ publishClient' = connecting.clients + 1
                    /\ UNCHANGED subscribeClient
               ELSE UNCHANGED <<publishClient, subscribeClient>>
            /\ IF retryAfterFailure(connecting.attempt, connecting.retries)
               THEN /\ connecting' = [connecting EXCEPT
                                         !.pc = "delay", !.failed = @ + 1,
                                         !.clients = IF outcome = "subscribeClientFails"
                                                     THEN @ + 1 ELSE @]
                    /\ UNCHANGED isActiveMqAvailable
               ELSE /\ connecting' = [connecting EXCEPT
                                         !.pc = "rejected", !.failed = @ + 1,
                                         !.clients = IF outcome = "subscribeClientFails"
                                                     THEN @ + 1 ELSE @]
                    /\ isActiveMqAvailable' = FALSE
    /\ UNCHANGED <<queueHandlers, subscriptions, messages, closedClients, shutdown, relayVars>>

\* await this.delay(delayMs), then the next pass of the loop
DelayDone ==
    /\ connecting.pc = "delay"
    /\ connecting.attempt < MaxRetries + 1
    /\ connecting' = [connecting EXCEPT !.pc = "attempt", !.attempt = @ + 1]
    /\ UNCHANGED <<publishClient, subscribeClient, isActiveMqAvailable, queueHandlers,
                   subscriptions, messages, closedClients, shutdown, relayVars>>

\* setupConsumer: one pass of the loop over the map, or its return when the
\* iterator is exhausted
SetupConsumerStep ==
    /\ connecting.pc = "setup"
    /\ IF connecting.cursor <= Len(queueHandlers)
       THEN /\ subscriptions' =
                  subscribeToQueue(subscriptions, subscribeClient,
                                   queueHandlers[connecting.cursor].queue,
                                   queueHandlers[connecting.cursor].handler, "setup")
            /\ connecting' = [connecting EXCEPT !.cursor = @ + 1]
       ELSE /\ connecting' = [connecting EXCEPT !.pc = "flag"]
            /\ UNCHANGED subscriptions
    /\ UNCHANGED <<publishClient, subscribeClient, isActiveMqAvailable, queueHandlers,
                   messages, closedClients, shutdown, relayVars>>

\* connect resumes after "await this.setupConsumer()": lines 67-69
ConnectReturn ==
    /\ connecting.pc = "flag"
    /\ isActiveMqAvailable' = TRUE
    /\ connecting' = [connecting EXCEPT !.pc = "resolved"]
    /\ shutdown' = FALSE
    /\ UNCHANGED <<publishClient, subscribeClient, queueHandlers, subscriptions,
                   messages, closedClients, relayVars>>

BridgeNext ==
    \/ \E q \in QueueNames : RegisterQueueHandler(q)
    \/ \E n \in 0..MaxRetries : ConnectCall(n)
    \/ \E outcome \in {"ok", "publishClientFails", "subscribeClientFails"} :
          ConnectAttempt(outcome)
    \/ DelayDone
    \/ SetupConsumerStep
    \/ ConnectReturn

SpecBridge == Init /\ [][BridgeNext]_vars

(***************************************************************************)
(* QueueService: shutting down and connecting again.  disconnect() and     *)
(* publishMessage() may run between any two steps of connect(), and        *)
(* connect() may be called again once a call has returned or thrown.       *)
(***************************************************************************)
\* the largest number of broker clients the connect() calls create
MaxClients == 3

\* publishMessage's tests before it sends the frame: the error thrown
publishMessage(available, client) ==
    IF ~available THEN "ServiceUnavailable"
    ELSE IF client = NoClient THEN "PublisherNotConnected"
    ELSE "none"

PublishMessage(message) ==
    /\ last' = [NoOp EXCEPT !.op = "publishMessage",
                            !.err = publishMessage(isActiveMqAvailable, publishClient)]
    /\ UNCHANGED <<redis, now, sockets, closed, joined, members, nops, calls, phase, qvars>>

\* the positions of a connect() call that has not settled
InProgress == {"attempt", "delay", "setup", "flag"}

\* disconnect(): both clients are disconnected and stay in their fields
Disconnect ==
    /\ closedClients' = closedClients \cup ({publishClient, subscribeClient} \ {NoClient})
    /\ isActiveMqAvailable' = FALSE
    /\ shutdown' = TRUE
    /\ last' = [NoOp EXCEPT !.op = "disconnect"]
    /\ connecting' = [connecting EXCEPT
                         !.interrupted = @ \/ connecting.pc \in InProgress]
    /\ UNCHANGED <<publishClient, subscribeClient, queueHandlers, subscriptions, messages>>
    /\ UNCHANGED <<redis, now, sockets, closed, joined, members, nops, calls, phase>>

\* connect(retries, delayMs) is called again after a call has settled
Reconnect(retries) ==
    /\ connecting.pc \in {"resolved", "rejected"}
    /\ connecting.clients < MaxClients
    /\ connecting' = [IdleConnect EXCEPT
                         !.pc = IF 1 <= retries THEN "attempt" ELSE "resolved",
                         !.retries = retries, !.attempt = 1,
                         !.clients = connecting.clients,
                         !.base = connecting.clients,
                         !.registered = Len(queueHandlers)]
    /\ UNCHANGED <<publishClient, subscribeClient, isActiveMqAvailable, queueHandlers,
                   subscriptions, messages, closedClients, shutdown, relayVars>>

LifecycleNext ==
    \/ BridgeNext
    \/ \E message \in ChatMessages : PublishMessage(message)
    \/ Disconnect
    \/ \E n \in 0..MaxRetries : Reconnect(n)

SpecLifecycle == Init /\ [][LifecycleNext]_vars

(***************************************************************************)
(* QueueService: dispatch of the broker's messages.  The queue service is  *)
(* started as App.initializeQueueService does; the broker then delivers    *)
(* messages to the subscriptions, and redelivers a message that was        *)
(* negative-acknowledged.  A handler runs in two steps: it is called, and  *)
(* after its store read it finishes.                                       *)
(***************************************************************************)
bridgeVars == <<publishClient, subscribeClient, isActiveMqAvailable, queueHandlers,
                subscriptions, connecting, closedClients, shutdown>>

\* App.initializeQueueService run to its end: both handlers registered, then
\* connect() with its default retries, whose attempts all fail or which succeeds
InitializeQueueService(outcome) ==
    /\ phase = "dispatch"
    /\ connecting.pc = "idle"
    /\ LET handlers == MapSet(MapSet(<<>>, Queue_WS_CHAT_MESSAGE,
                                     HandlerOf(Queue_WS_CHAT_MESSAGE)),
                              Queue_WS_NOTIFICATION, HandlerOf(Queue_WS_NOTIFICATION))
       IN  /\ queueHandlers' = handlers
           /\ IF outcome = "ok"
              THEN /\ publishClient' = 1
                   /\ subscribeClient' = 2
                   /\ subscriptions' =
                         subscribeToQueue(
                             subscribeToQueue(<<>>, 2, handlers[1].queue,
                                              handlers[1].handler, "setup"),
                             2, handlers[2].queue, handlers[2].handler, "setup")
                   /\ isActiveMqAvailable' = TRUE
                   /\ connecting' = [IdleConnect EXCEPT !.pc = "resolved",
                                        !.retries = DefaultRetries, !.attempt = 1,
                                        !.succeeded = 1, !.cursor = 3, !.clients = 2,
                                        !.registered = 2]
              ELSE /\ isActiveMqAvailable' = FALSE
                   /\ connecting' = [IdleConnect EXCEPT !.pc = "rejected",
                                        !.retries = DefaultRetries,
                                        !.attempt = DefaultRetries,
                                        !.failed = DefaultRetries, !.registered = 2]
                   /\ UNCHANGED <<publishClient, subscribeClient, subscriptions>>
    /\ UNCHANGED <<messages, closedClients, shutdown, relayVars>>

\* no error has escaped a callback: the process is running
SubscriberUp == \A m \in 1..MaxMsgs : ~messages[m].escaped

\* a producer puts a message on a queue
Enqueue(m, queueName, payload) ==
    /\ phase = "dispatch"
    /\ messages[m].state = "none"
    /\ IF m = 1 THEN TRUE ELSE messages[m - 1].state # "none"
    /\ messages' = [messages EXCEPT ![m] = [NoMessage EXCEPT
                        !.state = "queued", !.queue = queueName,
                        !.error = payload.error, !.body = payload.body]]
    /\ UNCHANGED <<bridgeVars, relayVars>>

\* the broker delivers message m to subscription j: the subscribe callback and
\* the readString callback, up to the call of the handler
Deliver(m, j) ==
    /\ SubscriberUp
    /\ subscriptions[j].queue = messages[m].queue
    /\ \/ messages[m].state = "queued"
       \/ messages[m].state = "nacked" /\ messages[m].deliveries < MaxDeliveries
    /\ LET r == readStringCallback(messages[m].error, messages[m].body, subscribeClient)
       IN  messages' = [messages EXCEPT ![m] = [@ EXCEPT
                          !.deliveries = @ + 1,
                          !.order = Max({messages[i].order : i \in 1..MaxMsgs}) + 1,
                          !.handler = subscriptions[j].handler,
                          !.invoked = IF r.invoke THEN @ + 1 ELSE @,
                          !.nacks = IF r.nack THEN @ + 1 ELSE @,
                          !.escaped = r.escapes,
                          !.state = IF r.invoke THEN "handling"
                                    ELSE IF r.nack THEN "nacked" ELSE "dropped"]]
    /\ UNCHANGED <<bridgeVars, relayVars>>

\* the handler called for message m finishes and the callback resumes
HandlerDone(m) ==
    /\ SubscriberUp
    /\ messages[m].state = "handling"
    /\ \E out \in Handle(messages[m].handler, redis, JSON_parse(messages[m].body).value) :
          LET a == afterHandler(out.err, subscribeClient)
          IN  messages' = [messages EXCEPT ![m] = [@ EXCEPT
                             !.emits = @ + Len(out.emits),
                             !.resolved = IF out.err = "none" THEN @ + 1 ELSE @,
                             !.threw = IF out.err # "none" THEN @ + 1 ELSE @,
                             !.acks = IF a.ack THEN @ + 1 ELSE @,
                             !.nacks = IF a.nack THEN @ + 1 ELSE @,
                             !.state = IF a.nack THEN "nacked"
                                       ELSE IF a.ack THEN "acked" ELSE "dropped"]]
    /\ UNCHANGED <<bridgeVars, relayVars>>

DispatchInit == InitWith("dispatch")

DispatchNext ==
    \/ \E outcome \in {"ok", "rejected"} : InitializeQueueService(outcome)
    \/ \E e \in EventIds, m \in Metadatas : CreateEventRoom(e, m)
    \/ \E u1 \in UserIds, m \in Metadatas :
          \E u2 \in UserIds \ {u1} : CreatePrivateRoom(u1, u2, m)
    \/ \E m \in 1..MaxMsgs, q \in QueueNames : \E payload \in Payloads(q) :
          Enqueue(m, q, payload)
    \/ \E m \in 1..MaxMsgs, j \in DOMAIN subscriptions : Deliver(m, j)
    \/ \E m \in 1..MaxMsgs : HandlerDone(m)

SpecDispatch == DispatchInit /\ [][DispatchNext]_vars

(***************************************************************************)
(* Claims                                                                  *)
(***************************************************************************)

\* C1 (SpecRegistry): when register(u2, c, p) runs right after register(u1, c, p)
\* with u1 # u2 (time may pass, no other operation in between), resolveUser(c)
\* is u2 afterwards and listConnections(u1) holds no record of c.
C1_Rebinding ==
    [][\A u2 \in UserIds :
          (last.op = "register" /\ u2 # last.user
              /\ Register(u2, last.socket, last.server))
          => /\ getUserIdFromSocket(redis', last.socket) = u2
             /\ getUserConnection(redis', last.user, last.socket) = {}]_vars

\* C2 (SpecConc): under every interleaving of the reads and MULTIs of concurrent
\* register calls, no socket has a record in the connection sets of two users.
C2_OneUserPerSocket ==
    \A c \in SocketIds : \A u1, u2 \in UserIds :
        (getUserConnection(redis, u1, c) # {} /\ getUserConnection(redis, u2, c) # {})
        => u1 = u2

\* C3 (Spec): after unregister(u, c) completes (the disconnect handler's call for
\* the user u it resolved), listConnections(u) holds no record of c and
\* resolveUser(c) is none.
C3_UnregisterRemoves ==
    (last.op = "onDisconnect" /\ last.user # Nil)
    => /\ getUserConnection(redis, last.user, last.socket) = {}
       /\ getUserIdFromSocket(redis, last.socket) = Nil

\* C4 (SpecRegistry): unregister(u, c) when u's connection set holds no record
\* of c changes no connection set and no reverse-index entry.
C4_UnregisterAbsentNoOp ==
    [][\A u \in UserIds, c \in SocketIds :
          (getUserConnection(redis, u, c) = {} /\ Unregister(u, c))
          => redis' = redis]_vars

\* C5 (SpecRegistry): exists(u) is true exactly when listConnections(u) is not
\* empty.
C5_ExistsIffConnected ==
    \A u \in UserIds :
        userExistsById(redis, u) <=> getAllUserConnections(redis, u) # {}

\* C6 (Spec): sendTo to a user id that has a registered live connection emits
\* the payload once, on the channel, to the connection resolveActiveConnection
\* gives, and to nothing else.
C6_SendToUserEmitsOnce ==
    (last.op = "sendNotificationTo" /\ last.dest \in UserIds
        /\ ~IsRoomDest(last.dest) /\ HasLive(last.dest))
    => \E c \in getSocketFromUserId(redis, last.dest), n \in Notifications :
          last.emits = <<EmitToSocket(c, Channel_notification, n)>>

\* C7 (SpecE2E): once alice and bob have registered live connections, the
\* private room has been created, both have been added with addUserToRoom and a
\* chat message for the room has been handled, every live connection of alice
\* and of bob has received the message event carrying the envelope.
C7_EndToEnd ==
    phase = "done"
    => \A c \in sockets :
          getUserIdFromSocket(redis, c) \in {Alice, Bob}
          => \E i \in DOMAIN last.emits :
                /\ last.emits[i].channel = Channel_message
                /\ last.emits[i].payload.roomId = PrivateRoom
                /\ c \in last.emits[i].recipients

\* C8 (Spec): addUserToRoomLive(r, u) fails with RoomNotFound when r does not
\* exist; joins u's active connection to r when r exists and u has one; and
\* completes without error, joining nothing, when r exists and u has none.
C8_AddUserToRoomLive ==
    last.op = "addUserToRoom"
    => /\ ~roomExistsById(redis, last.room) => last.err = "RoomNotFound"
       /\ (roomExistsById(redis, last.room)
              /\ getSocketFromUserId(redis, last.user) # {Nil})
          => \E c \in getSocketFromUserId(redis, last.user) : <<c, last.room>> \in joined
       /\ (roomExistsById(redis, last.room)
              /\ getSocketFromUserId(redis, last.user) = {Nil})
          => (last.err = "none" /\ last.joins = {})

\* C9 (Spec): roomsOf(u) is exactly the set of rooms u is currently a member of.
C9_RoomsOfIsMembership ==
    \A u \in UserIds :
        getUserRooms(redis, u) = {r \in RoomIds : <<r, u>> \in members}

\* C10 (Spec): membersOf(r) is exactly the set of users whose last membership
\* operation on r was a successful addMember.
C10_MembersOfIsMembership ==
    \A r \in RoomIds :
        getRoomMembers(redis, r) = {u \in UserIds : <<r, u>> \in members}

\* C11 (Spec): creating a room whose id already has a stored room returns the
\* stored room and leaves its metadata as it was.
C11_IdempotentCreate ==
    [][\A r \in RoomIds :
          (roomExistsById(redis, r) /\ nops' # nops
              /\ last'.op = "createRoom" /\ last'.room = r)
          => /\ GET(redis', RoomKey(r)).metadata = GET(redis, RoomKey(r)).metadata
             /\ last'.ret.metadata = GET(redis, RoomKey(r)).metadata]_vars

\* C16 (Spec): broadcastToRoom for a room id with no stored room fails with
\* RoomNotFound and emits nothing; for an existing room it makes exactly one
\* emission, to the room's group.
C16_BroadcastToRoom ==
    (last.op = "handleChatMessage" /\ last.room # Nil)
    => IF roomExistsById(redis, last.room)
       THEN /\ last.err = "none"
            /\ Len(last.emits) = 1
            /\ last.emits[1].to = <<"room", last.room>>
       ELSE /\ last.err = "RoomNotFound"
            /\ last.emits = <<>>

C16_Witness ==
    /\ last.op = "handleChatMessage"
    /\ last.room # Nil
    /\ ~roomExistsById(redis, last.room)
    /\ last.err = "RoomNotFound"

C18_BestEffortConnect ==
    last.op = "onRegister"
    => /\ last.err = "none"
       /\ getUserIdFromSocket(redis, last.socket) = last.user
       /\ getUserConnection(redis, last.user, last.socket) # {}
       /\ \A r \in getUserRooms(redis, last.user) :
             <<last.socket, r>> \in last.joins <=> roomExistsById(redis, r)
       /\ last.joins \subseteq joined

C18_Witness ==
    /\ last.op = "onRegister"
    /\ \E r1, r2 \in getUserRooms(redis, last.user) :
          /\ roomExistsById(redis, r1)
          /\ <<last.socket, r1>> \in joined
          /\ ~roomExistsById(redis, r2)
          /\ <<last.socket, r2>> \notin joined

\* C19 (SpecBridge): connect makes at most maxAttempts attempts and none after
\* a successful one; when maxAttempts attempts were made and all failed it ends
\* with the error thrown and availability false, and it gives up no earlier.
C19_BoundedAttempts ==
    /\ connecting.failed + connecting.succeeded <= connecting.retries
    /\ connecting.succeeded <= 1
    /\ connecting.succeeded = 1 => connecting.pc \in {"setup", "flag", "resolved"}
    /\ connecting.pc \in {"attempt", "delay"} => connecting.failed < connecting.retries
    /\ (connecting.retries >= 1 /\ connecting.failed = connecting.retries)
       => (connecting.pc = "rejected" /\ ~isActiveMqAvailable)
    /\ connecting.pc = "rejected" => connecting.failed = connecting.retries

C19_Witness ==
    /\ connecting.pc = "rejected"
    /\ connecting.retries = MaxRetries
    /\ connecting.failed = MaxRetries

\* C20 (SpecBridge): no subscription exists before connect has its clients;
\* once the bridge is CONNECTED every registered handler has a subscription, and
\* the subscriptions connect's setup made are those of the handlers in
\* registration order, each once.
C20_RegisterHandler ==
    /\ connecting.pc \in {"idle", "attempt", "delay", "rejected"} => subscriptions = <<>>
    /\ (connecting.pc = "resolved" /\ isActiveMqAvailable)
       => LET bySetup == SelectSeq(subscriptions, LAMBDA x : x.by = "setup")
          IN  /\ Len(bySetup) <= Len(queueHandlers)
              /\ \A i \in DOMAIN bySetup : bySetup[i].queue = queueHandlers[i].queue
              /\ \A i \in DOMAIN queueHandlers :
                    \E j \in DOMAIN subscriptions :
                       /\ subscriptions[j].queue = queueHandlers[i].queue
                       /\ subscriptions[j].client = subscribeClient

\* the body of message m cannot be read or is not JSON
Unparseable(m) ==
    messages[m].error \/ messages[m].body = Nil \/ ~JSON_parse(messages[m].body).ok

\* C12 (SpecDispatch): on one queue, when the handler has thrown for M1 and
\* never succeeded for it, and has succeeded for M2 and never thrown for it,
\* M1 was negative-acknowledged each time and never acknowledged, M2 was
\* acknowledged once, and M2's handler ran and took effect exactly once.
C12_HandlerIsolation ==
    \A m1, m2 \in 1..MaxMsgs :
        (/\ m1 # m2
         /\ messages[m1].queue = messages[m2].queue
         /\ messages[m1].threw >= 1 /\ messages[m1].resolved = 0
         /\ messages[m2].resolved >= 1 /\ messages[m2].threw = 0)
        => /\ messages[m1].acks = 0
           /\ messages[m1].nacks = messages[m1].threw
           /\ messages[m2].acks = 1
           /\ messages[m2].nacks = 0
           /\ messages[m2].invoked = 1
           /\ messages[m2].resolved = 1
           /\ messages[m2].emits <= 1

C12_Witness ==
    \E m1, m2 \in 1..MaxMsgs :
        /\ m1 # m2
        /\ messages[m1].queue = messages[m2].queue
        /\ messages[m1].threw >= 1 /\ messages[m1].nacks >= 1
        /\ messages[m2].acks = 1 /\ messages[m2].emits = 1
        /\ messages[m2].order < messages[m1].order

\* C13 (SpecDispatch): every delivery that has finished got exactly one of ack
\* and nack: an ack for each delivery whose body parsed and whose handler
\* resolved, a nack for each other one.
C13_ExactlyOneAckOrNack ==
    \A m \in 1..MaxMsgs :
        /\ messages[m].acks + messages[m].nacks
              = messages[m].deliveries - (IF messages[m].state = "handling" THEN 1 ELSE 0)
        /\ messages[m].acks = messages[m].resolved
        /\ messages[m].nacks
              = messages[m].threw + (messages[m].deliveries - messages[m].invoked)
        /\ messages[m].invoked > 0 => ~Unparseable(m)

C13_Witness ==
    \E m1, m2 \in 1..MaxMsgs :
        /\ messages[m1].state = "acked" /\ messages[m1].deliveries = 2
        /\ messages[m2].state = "nacked" /\ messages[m2].threw = 2

\* C14 (SpecDispatch): an envelope is never acknowledged without an emission
\* having been made for it on the transport layer.
C14_NeverSilentlyDropped ==
    \A m \in 1..MaxMsgs : messages[m].acks >= 1 => messages[m].emits >= 1

C21_DisconnectFailsFast ==
    [][/\ (last'.op = "disconnect" /\ last' # last) => ~isActiveMqAvailable'
       /\ (shutdown /\ shutdown') => ~isActiveMqAvailable'
       /\ (shutdown /\ last' # last
              /\ last'.op \in {"publishMessage", "registerQueueHandler"})
          => last'.err = "ServiceUnavailable"]_vars

\* C22 (Spec): sendTo to a destination with the EVENT or JAM prefix fails with
\* RoomNotFound and emits nothing when no room is stored under it, and otherwise
\* makes exactly one emission, to the destination's group; a destination with
\* neither prefix is handled as a user id: it fails with DestinationNotFound
\* exactly when the user does not exist, and nothing is emitted to a group.
C22_PrefixRouting ==
    (last.op = "sendNotificationTo" /\ last.dest # Nil)
    => IF StartsWith(last.dest, RoomPrefix_EVENT) \/ StartsWith(last.dest, RoomPrefix_JAM)
       THEN IF EXISTS(redis, RoomKey(last.dest))
            THEN /\ last.err = "none"
                 /\ Len(last.emits) = 1
                 /\ last.emits[1].to = <<"room", last.dest>>
            ELSE /\ last.err = "RoomNotFound"
                 /\ last.emits = <<>>
       ELSE /\ last.err = "DestinationNotFound" <=> ~EXISTS(redis, UserKey(last.dest))
            /\ \A i \in DOMAIN last.emits : last.emits[i].to[1] = "socket"
            /\ last.err # "RoomNotFound"

C22_Witness ==
    /\ last.op = "sendNotificationTo"
    /\ StartsWith(last.dest, RoomPrefix_JAM)
    /\ EXISTS(redis, RoomKey(last.dest))
    /\ Len(last.emits) = 1
    /\ last.emits[1].to = <<"room", last.dest>>

\* s comes before t, or is t, in the lexicographic order of code units
LexLeq(s, t) ==
    \E k \in 0..Len(s) :
       /\ k <= Len(t)
       /\ \A i \in 1..k : s[i] = t[i]
       /\ \/ k = Len(s)
          \/ k < Len(t) /\ CharCode(s[k + 1]) < CharCode(t[k + 1])

\* C23 (SpecRoomId): generatePrivateRoomId gives the same id for (a, b) and for
\* (b, a), and the id is the PRIVATE prefix, then the two ids in lexicographic
\* order with '_' between them.
C23_Symmetry ==
    last.op = "generatePrivateRoomId"
    => /\ last.ret = generatePrivateRoomId(last.dest, last.user)
       /\ \E lo \in {last.user, last.dest}, hi \in {last.user, last.dest} :
             /\ {lo, hi} = {last.user, last.dest}
             /\ LexLeq(lo, hi)
             /\ last.ret = RoomPrefix_PRIVATE \o lo \o <<"_">> \o hi

C23_Witness ==
    /\ last.op = "generatePrivateRoomId"
    /\ last.user = <<"b">>
    /\ last.dest = <<"a", "_">>
    /\ last.ret = RoomPrefix_PRIVATE \o <<"a", "_", "_", "b">>

\* C24 (SpecRegistry): resolveActiveConnection(u) is none exactly when
\* listConnections(u) is empty, and otherwise it is the socket id of one of u's
\* records whose timestamp no other record of u exceeds.
C24_ResolveActiveConnection ==
    \A u \in UserIds : \A socketId \in getSocketFromUserId(redis, u) :
        /\ socketId = Nil <=> getAllUserConnections(redis, u) = {}
        /\ socketId # Nil
           => \E conn \in getAllUserConnections(redis, u) :
                 /\ conn.socketId = socketId
                 /\ \A other \in getAllUserConnections(redis, u) :
                       other.timestamp <= conn.timestamp

C24_Witness ==
    \E u \in UserIds : \E c1, c2 \in getAllUserConnections(redis, u) :
        /\ c1.timestamp < c2.timestamp
        /\ c1.socketId # c2.socketId
        /\ getSocketFromUserId(redis, u) = {c2.socketId}

\* C25 (SpecRoutes): when addUserToRoom has failed for a user of an add-users or
\* add-user request, the response of the request is an error response and not
\* the success message.
C25_FailureIsErrorResponse ==
    (last.op \in {"POST /private/add-users", "POST /event/add-user"} /\ last.err # "none")
    => /\ last.ret[1] # Response_OK
       /\ last.ret \notin {<<Response_OK, "Users added to room">>,
                           <<Response_OK, "User added to room">>}

\* C26 (SpecStoreDown): when a store read of sendNotificationTo, broadcastToRoom
\* or WebSocketService.addUserToRoom has rejected, the operation ends with the
\* store's error: not with DestinationNotFound, RoomNotFound or UserUnreachable,
\* not without error, and with nothing emitted and nothing joined.
C26_StoreFailureSurfaces ==
    (last.op \in {"sendNotificationTo", "broadcastToRoom", "addUserToRoomLive"}
        /\ last.storeFailed)
    => /\ last.err = StoreFailure
       /\ last.err \notin {"DestinationNotFound", "RoomNotFound", "UserUnreachable", "none"}
       /\ last.emits = <<>>
       /\ last.joins = {}

C26_Witness ==
    /\ last.op = "sendNotificationTo"
    /\ last.storeFailed
    /\ last.dest \in UserIds
    /\ userExistsById(redis, last.dest)
    /\ getAllUserConnections(redis, last.dest) # {}
    /\ last.err = StoreFailure

\* C27 (Spec): the disconnect handler of socket c raises no error; when the
\* reverse index has no user for c it changes no connection set and no
\* reverse-index entry; when it has user u, the records of c leave u's
\* connection set, c's reverse-index entry goes, and no other connection set or
\* reverse-index entry changes.
C27_OnDisconnect ==
    [][(nops' = nops + 1 /\ last'.op = "onDisconnect")
       => LET c == last'.socket
              u == getUserIdFromSocket(redis, c)
          IN  /\ last'.err = "none"
              /\ last'.user = u
              /\ \A u2 \in UserIds :
                    getAllUserConnections(redis', u2) =
                       {conn \in getAllUserConnections(redis, u2) :
                           ~(u2 = u /\ conn.socketId = c)}
              /\ \A c2 \in SocketIds :
                    getUserIdFromSocket(redis', c2) =
                       IF c2 = c THEN Nil ELSE getUserIdFromSocket(redis, c2)]_vars

\* C28 (SpecRegistry): whenever no register or unregister is in progress, user
\* u's connection set holds a record of socket c exactly when the reverse index
\* maps c to u.
C28_RegistryConsistency ==
    \A u \in UserIds, c \in SocketIds :
        getUserConnection(redis, u, c) # {} <=> getUserIdFromSocket(redis, c) = u

\* C29 (SpecRegistry): unregister(u, c) when u holds c and another registered
\* connection c2 leaves c2 as it was: resolveUser(c2) is still u, u's
\* connection set still holds c2's records, and the disconnect handler of c2
\* run on the store it leaves removes c2 from u's set.
C29_UnregisterKeepsOthers ==
    [][\A u \in UserIds, c \in SocketIds, c2 \in SocketIds :
          (/\ c2 # c
           /\ getUserConnection(redis, u, c) # {}
           /\ getUserConnection(redis, u, c2) # {}
           /\ getUserIdFromSocket(redis, c2) = u
           /\ Unregister(u, c))
          => /\ getUserIdFromSocket(redis', c2) = u
             /\ getUserConnection(redis', u, c2) = getUserConnection(redis, u, c2)
             /\ getUserIdFromSocket(redis', c2) # Nil
             /\ \A db \in removeUserConnection(redis', u, c2) :
                   getUserConnection(db, u, c2) = {}]_vars

\* C30 (SpecRace): once the register handler and the disconnect handler of a
\* socket have both finished, however their store calls interleaved, no user's
\* connection set holds a record of the socket and the reverse index has no
\* entry for it.
C30_RegisterDisconnectRace ==
    (calls[1].pc = "done" /\ calls[2].pc = "done")
    => /\ \A u \in UserIds : getUserConnection(redis, u, calls[1].socketId) = {}
       /\ getUserIdFromSocket(redis, calls[1].socketId) = Nil

\* C31 (Spec): onConnect joins a connection to room r's group only if the user
\* it registers is a member of r at that time; an id that merely occurs inside
\* r's id or inside another member's id does not make the user a member.
C31_JoinOnlyMemberRooms ==
    [][(nops' = nops + 1 /\ last'.op = "onRegister")
          => \A j \in last'.joins : <<j[2], last'.user>> \in members]_vars

\* C32 (Spec): every user's connection set holds at most one record for a
\* connection id, also after the socket has emitted register twice, with the
\* same user id or with another one.
C32_OneRecordPerConnection ==
    \A u \in UserIds, c \in SocketIds :
        Cardinality(getUserConnection(redis, u, c)) <= 1

\* C33 (SpecDispatch): of two messages delivered on one queue's subscription,
\* the earlier one is acknowledged or negative-acknowledged before the handler
\* of the later one is invoked: two handlers of one queue never run at once.
C33_InOrderProcessing ==
    \A m1, m2 \in 1..MaxMsgs :
        (/\ m1 # m2
         /\ messages[m1].queue = messages[m2].queue
         /\ messages[m1].order < messages[m2].order
         /\ messages[m2].state = "handling")
        => messages[m1].state # "handling"

\* C34 (SpecBridge): a connect(maxAttempts, delay) call that has returned without
\* error, for any maxAttempts >= 0, leaves availability true, both broker
\* clients set and every handler registered before the call subscribed.
C34_SuccessMeansConnected ==
    connecting.pc = "resolved"
    => /\ isActiveMqAvailable
       /\ publishClient # NoClient
       /\ subscribeClient # NoClient
       /\ \A i \in 1..connecting.registered :
             \E j \in DOMAIN subscriptions :
                /\ subscriptions[j].queue = queueHandlers[i].queue
                /\ subscriptions[j].client = subscribeClient

\* C35 (SpecLifecycle): when disconnect() ran while a connect() call was in
\* progress and both have finished, availability is false and no broker client
\* that connect() created is still open with a subscription on it.
C35_DisconnectDuringConnect ==
    (connecting.interrupted /\ connecting.pc \in {"resolved", "rejected"})
    => /\ ~isActiveMqAvailable
       /\ \A j \in DOMAIN subscriptions :
             subscriptions[j].client > connecting.base
             => subscriptions[j].client \in closedClients

\* C36 (SpecMulti): when a user whose record exists holds a live connection on
\* this process and one on the other process, sendTo for the user run on this
\* process delivers the payload to a connection of the user, also when the
\* connection registered last is owned by the other process.
C36_SendToAcrossProcesses ==
    (/\ last.op = "sendNotificationTo"
     /\ last.dest \in UserIds
     /\ userExistsById(redis, last.dest)
     /\ LocalLive(last.dest) # {}
     /\ RemoteLive(last.dest) # {})
    => /\ last.err = "none"
       /\ Len(last.emits) = 1
       /\ last.emits[1].recipients \subseteq LocalLive(last.dest) \cup RemoteLive(last.dest)
       /\ last.emits[1].recipients # {}

\* C37 (SpecDispatch): a notification envelope with no destId and the roomId of
\* an existing room, of any type, is emitted once to the room's group and
\* acknowledged when its handler finishes.
C37_RoomIdNotification ==
    [][\A m \in 1..MaxMsgs :
          (/\ messages[m].state = "handling"
           /\ messages'[m].state # "handling"
           /\ messages[m].handler = "handleNotification"
           /\ JSON_parse(messages[m].body).value.destId = Nil
           /\ JSON_parse(messages[m].body).value.roomId # Nil
           /\ roomExistsById(redis, JSON_parse(messages[m].body).value.roomId))
          => /\ messages'[m].state = "acked"
             /\ messages'[m].acks = messages[m].acks + 1
             /\ messages'[m].emits = messages[m].emits + 1]_vars

\* C38 (SpecRoomId): generatePrivateRoomId is injective on unordered pairs: a
\* pair of user ids that gets the id of another pair is that pair, also for ids
\* that contain the '_' separator.
C38_Injective ==
    last.op = "generatePrivateRoomId"
    => \A user1Id \in Ids, user2Id \in Ids :
          generatePrivateRoomId(user1Id, user2Id) = last.ret
          => {user1Id, user2Id} = {last.user, last.dest}

====
